---- MODULE Spec2Model ----
(***************************************************************************)
(* Farc (src/farc.tsx): the frame, image and developer-preview routes that *)
(* frame(path, handler) registers on a Hono application, and the requests  *)
(* served by them.                                                         *)
(*                                                                         *)
(* Strings are sequences of tokens: "http://h/devtools/dev" is             *)
(* <<"http:", "/", "/", "h", "/", "dev", "tools", "/", "dev">>, so that    *)
(* concatenation is \o and String.prototype.replace works on what the      *)
(* string holds. No token but "dev" begins with the letters dev and no     *)
(* token but "/" holds a slash.                                            *)
(* Scalar JavaScript values are TLA+ strings: "undefined", "null", "0",    *)
(* "" and "false" are the falsy ones.                                      *)
(***************************************************************************)
EXTENDS Naturals, Sequences, FiniteSets, TLC

\* ------------------------------------------------------------------ bounds
MaxFrames == 3      \* calls of frame() before the application serves
MaxInflight == 2    \* requests being served at the same time
MaxClicks == 2      \* length of a chain of clicks followed from one page

\* ------------------------------------------------------- JavaScript values
Undefined == "undefined"
Absent == "absent"        \* a member a JSON object does not hold
Fn == "function"          \* a function-valued member

Falsy == {"undefined", "null", "0", "", "false"}
Truthy(v) == v \notin Falsy

\* what a member reads as: a missing member reads as undefined
Get(v) == IF v = Absent THEN Undefined ELSE v

\* ------------------------------------------------------------------ strings
Origin == <<"http:", "/", "/", "h">>
Slash == <<"/">>

RECURSIVE IndexOfToken(_, _, _)
IndexOfToken(s, t, i) ==
  IF i > Len(s) THEN 0
  ELSE IF s[i] = t THEN i
  ELSE IndexOfToken(s, t, i + 1)

\* utils/parsePath: the path without its query string and without a
\* trailing slash
parsePath(path) ==
  LET q == IndexOfToken(path, "?", 1)
      p == IF q = 0 THEN path ELSE SubSeq(path, 1, q - 1)
  IN IF Len(p) > 0 /\ p[Len(p)] = "/" THEN SubSeq(p, 1, Len(p) - 1) ELSE p

RECURSIVE IndexOfSub(_, _, _)
IndexOfSub(s, pat, i) ==
  IF i + Len(pat) - 1 > Len(s) THEN 0
  ELSE IF SubSeq(s, i, i + Len(pat) - 1) = pat THEN i
  ELSE IndexOfSub(s, pat, i + 1)

\* String.prototype.replace(pattern, replacement) with a string pattern:
\* the first occurrence only
Replace(s, pat, rep) ==
  LET i == IndexOfSub(s, pat, 1)
  IN IF i = 0 THEN s
     ELSE SubSeq(s, 1, i - 1) \o rep \o SubSeq(s, i + Len(pat), Len(s))

DevSuffix == <<"/", "dev">>
ImageSuffix == <<"/", "image">>

\* ------------------------------------------------------------ JSON objects
\* Every object of the model has the same members; one it does not hold is
\* Absent. intents is [tag, items]: absent, null or a list of meta tags.
NoIntents == [tag |-> Absent, items |-> <<>>]
NullIntents == [tag |-> "null", items |-> <<>>]

NoObj ==
  [url |-> <<>>, initialUrl |-> <<>>, buttonIndex |-> Absent,
   inputText |-> Absent, previousState |-> Absent, deriveState |-> Absent,
   intents |-> NoIntents]

ScalarMembers == {"buttonIndex", "inputText", "previousState", "deriveState"}

\* JSON.stringify then JSON.parse: a member that is undefined or a function
\* is not written, null and the other values are
JsonOf(o) ==
  [m \in DOMAIN o |->
     IF m \in ScalarMembers /\ o[m] \in {Undefined, Fn} THEN Absent ELSE o[m]]

\* a query parameter: absent, the empty string, or a string the codec wrote
NoParam == [kind |-> Absent, json |-> NoObj]
EmptyParam == [kind |-> "empty", json |-> NoObj]

\* utils/serializeJson: the URL-safe string of the JSON text of a value
serializeJson(o) == [kind |-> "ser", json |-> JsonOf(o)]

\* utils/deserializeJson: the value of a string the codec wrote; any other
\* argument (undefined, the empty string) is no JSON text and throws
deserializeJson(p) ==
  IF p.kind = "ser" THEN [ok |-> TRUE, val |-> <<p.json>>]
  ELSE [ok |-> FALSE, val |-> <<>>]

\* JavaScript truthiness of a query parameter's value
ParamTruthy(p) == p.kind = "ser"

\* ----------------------------------------------------------------- intents
IndexStr == <<"1", "2", "3">>

\* utils/parseIntents: one meta tag per control; the buttons are numbered
\* from 1 in their order, the text input has no number
RECURSIVE ParseItems(_, _, _)
ParseItems(kinds, i, n) ==
  IF i > Len(kinds) THEN <<>>
  ELSE IF kinds[i] = "input"
       THEN <<[property |-> "fc:frame:input:text", index |-> "", type |-> "input"]>>
            \o ParseItems(kinds, i + 1, n)
       ELSE <<[property |-> "fc:frame:button", index |-> IndexStr[n], type |-> kinds[i]]>>
            \o ParseItems(kinds, i + 1, n + 1)

parseIntents(kinds) == [tag |-> "list", items |-> ParseItems(kinds, 1, 1)]

\* the button that was pressed is a reset button of the previous frame
IsReset(buttonIndex, intents) ==
  /\ intents.tag = "list"
  /\ \E i \in 1..Len(intents.items) :
       /\ intents.items[i].type = "reset"
       /\ intents.items[i].index = buttonIndex

\* ------------------------------------------------------ context derivation
\* utils/requestToContext: the request's URL and the data of its JSON body
requestToContext(url, body) ==
  [NoObj EXCEPT !.url = url,
                !.buttonIndex = body.buttonIndex,
                !.inputText = body.inputText]

\* utils/getFrameContext: a few field copies. previousContext is <<>> for
\* undefined and <<object>> otherwise.
getFrameContext(context, initState, previousContext) ==
  LET hasPrev == previousContext # <<>>
      prev == IF hasPrev THEN previousContext[1] ELSE NoObj
      buttonIndex == Get(context.buttonIndex)
      reset == hasPrev /\ IsReset(buttonIndex, prev.intents)
      initialUrl == IF hasPrev /\ prev.initialUrl # <<>>
                    THEN prev.initialUrl ELSE parsePath(context.url)
      prevState == IF hasPrev /\ Truthy(Get(prev.previousState))
                   THEN prev.previousState ELSE initState
  IN [NoObj EXCEPT !.url = IF reset THEN initialUrl ELSE parsePath(context.url),
                   !.initialUrl = initialUrl,
                   !.buttonIndex = buttonIndex,
                   !.inputText = Get(context.inputText),
                   !.previousState = prevState,
                   !.deriveState = Fn]

\* ---------------------------------------------------------------- handlers
\* The frames the application of the model declares. A handler returns
\* { action, intents } and may call context.deriveState(fn).
PathA == <<"/", "a">>
PathAX == <<"/", "a", "/", "x">>
PathDevtools == <<"/", "dev", "tools">>

\* the paths as the application passes them to frame(), in the order of
\* its calls
DeclaredPaths == <<PathDevtools, PathA, PathAX \o Slash, <<"/", "b">>>>

NoAction == [def |-> FALSE, str |-> <<>>]
NoKinds == [def |-> FALSE, kinds |-> <<>>]

\* the state the handler's derive function makes of a state
DeriveFn(state) == IF state = "S1" THEN "S2" ELSE "S1"

handler(path) ==
  IF path = PathA
  THEN [action |-> [def |-> TRUE, str |-> <<"/", "x", "/">>],
        intents |-> [def |-> TRUE, kinds |-> <<"button", "reset">>],
        derive |-> FALSE]
  ELSE IF path = PathAX
  THEN [action |-> NoAction, intents |-> NoKinds, derive |-> TRUE]
  ELSE IF path = PathDevtools
  THEN [action |-> [def |-> TRUE, str |-> <<>>],
        intents |-> [def |-> TRUE, kinds |-> <<"input", "reset", "button">>],
        derive |-> TRUE]
  ELSE [action |-> NoAction,
        intents |-> [def |-> TRUE, kinds |-> <<"button">>],
        derive |-> FALSE]

\* context.deriveState(fn) and context.deriveState(): the request's state
deriveState(context, derive) ==
  IF derive THEN DeriveFn(context.previousState) ELSE context.previousState

\* ------------------------------------------------------------------- state
VARIABLES
  ctorArg,       \* the initialState parameter the constructor was given (l. 62)
  initialState,  \* this.#initialState (l. 54)
  routes,        \* the routes added to this.hono, in the order of their adding
                 \* (l. 79, 174, 192-225)
  built,         \* Hono has built its matcher: a request was dispatched (l. 64)
  slots          \* the requests being served, each at its await, and the
                 \* last response of each slot (l. 79-346)

vars == <<ctorArg, initialState, routes, built, slots>>

Slots == 1..MaxInflight

NoBody == [buttonIndex |-> Undefined, inputText |-> Undefined]
NoUrl == [base |-> <<>>, previousContext |-> NoParam, context |-> NoParam]
NoPage == [context |-> NoObj, previousContext |-> <<>>, extended |-> NoObj]
NoRoute == [method |-> "ALL", path |-> <<>>, kind |-> "notFound"]

Idle ==
  [pc |-> "idle", depth |-> 0,
   \* the request
   method |-> "GET", pathname |-> <<>>, prevQ |-> NoParam, ctxQ |-> NoParam,
   body |-> NoBody, formPostUrl |-> <<>>,
   \* the page whose link the request follows (a click or an image fetch)
   page |-> NoPage,
   \* the route that answers and what it did
   route |-> NoRoute, deserialized |-> <<>>, previousContext |-> <<>>,
   initialStateArg |-> "unread", context |-> NoObj, handlerCalls |-> 0,
   derived |-> Undefined,
   \* the response
   response |-> "none", location |-> NoUrl, imageUrl |-> NoUrl, postUrl |-> NoUrl,
   parsedIntents |-> NoIntents,
   \* the developer preview
   baseUrl |-> <<>>, messageUrl |-> <<>>, fetches |-> <<>>, statuses |-> <<>>,
   error |-> Undefined, rendered |-> [fetch |-> 0, status |-> 0]]

\* c.req.url: the query string is one token after the "?"
HasQuery(r) == r.prevQ.kind # Absent \/ r.ctxQ.kind # Absent
ReqUrl(r) == Origin \o r.pathname \o (IF HasQuery(r) THEN <<"?", "query">> ELSE <<>>)

\* ------------------------------------------------------------- constructor
\* the parameter stored whatever its value
ConstructorStoresAny(arg) == arg

\* if (initialState) this.#initialState = initialState
Constructor(arg) == IF Truthy(arg) THEN arg ELSE Undefined

\* omitted, the falsy values and a state
InitialStateArgs == {Undefined, "0", "", "false", "null", "S1"}

Init ==
  /\ ctorArg \in InitialStateArgs
  /\ initialState = Constructor(ctorArg)
  /\ routes = <<>>
  /\ built = FALSE
  /\ slots = [s \in Slots |-> Idle]

\* ------------------------------------------------------------ registration
\* the image route added with use() instead of get()
FrameRoutesImageUse(path) ==
  <<[method |-> "ALL", path |-> parsePath(path), kind |-> "frame"],
    [method |-> "ALL", path |-> parsePath(path) \o ImageSuffix, kind |-> "image"],
    [method |-> "ALL", path |-> parsePath(path) \o DevSuffix, kind |-> "devRenderer"],
    [method |-> "GET", path |-> parsePath(path) \o DevSuffix, kind |-> "devGet"],
    [method |-> "POST", path |-> parsePath(path) \o DevSuffix, kind |-> "devPost"]>>

\* frame(path, handler): the five routes it adds, in order
FrameRoutes(path) ==
  <<[method |-> "ALL", path |-> parsePath(path), kind |-> "frame"],
    [method |-> "GET", path |-> parsePath(path) \o ImageSuffix, kind |-> "image"],
    [method |-> "ALL", path |-> parsePath(path) \o DevSuffix, kind |-> "devRenderer"],
    [method |-> "GET", path |-> parsePath(path) \o DevSuffix, kind |-> "devGet"],
    [method |-> "POST", path |-> parsePath(path) \o DevSuffix, kind |-> "devPost"]>>

NumFrames == Len(routes) \div 5

\* the application's next call of frame(); Hono adds no route once its
\* matcher is built
Frame ==
  /\ ~built
  /\ NumFrames < MaxFrames
  /\ routes' = routes \o FrameRoutes(DeclaredPaths[NumFrames + 1])
  /\ UNCHANGED <<ctorArg, initialState, built, slots>>

\* the path a route of frame(path) was registered for
FramePathOf(route) ==
  IF route.kind = "frame" THEN route.path
  ELSE IF route.kind = "image" THEN SubSeq(route.path, 1, Len(route.path) - Len(ImageSuffix))
  ELSE SubSeq(route.path, 1, Len(route.path) - Len(DevSuffix))

\* ---------------------------------------------------------------- dispatch
Matches(route, method, pathname) ==
  /\ route.method \in {"ALL", method}
  /\ route.path = pathname

\* Hono runs the matching handlers in the order of their adding; the
\* jsxRenderer middleware calls next(), every other handler answers
RECURSIVE DispatchFrom(_, _, _, _)
DispatchFrom(rs, method, pathname, i) ==
  IF i > Len(rs) THEN NoRoute
  ELSE IF Matches(rs[i], method, pathname) /\ rs[i].kind # "devRenderer" THEN rs[i]
  ELSE DispatchFrom(rs, method, pathname, i + 1)

Dispatch(method, pathname) == DispatchFrom(routes, method, pathname, 1)

\* ----------------------------------------------------------------- clients
Methods == {"GET", "POST", "PUT"}
Bodies ==
  {NoBody, [buttonIndex |-> "1", inputText |-> "hi"],
   [buttonIndex |-> "2", inputText |-> Undefined]}
ParsedPaths == {parsePath(DeclaredPaths[i]) : i \in 1..Len(DeclaredPaths)}
PostUrls == {Origin \o PathA, Origin \o PathAX}

\* the requests a client makes on its own: to a frame page, to an image
\* route and to a developer preview
FreshRequests ==
  {[Idle EXCEPT !.method = m, !.pathname = p, !.prevQ = q, !.body = b] :
     m \in Methods, p \in ParsedPaths, q \in {NoParam, EmptyParam},
     b \in Bodies}
  \cup
  {[Idle EXCEPT !.method = m, !.pathname = p \o ImageSuffix, !.ctxQ = q] :
     m \in Methods, p \in ParsedPaths, q \in {NoParam, EmptyParam}}
  \cup
  {[Idle EXCEPT !.method = m, !.pathname = p \o DevSuffix, !.formPostUrl = u] :
     m \in Methods, p \in ParsedPaths, u \in PostUrls}

Free(s) == slots[s].pc \in {"idle", "done"}

\* Hono receives a request and finds the route that answers it
Arrive(s, r) ==
  /\ built' = TRUE
  /\ slots' = [slots EXCEPT ![s] =
       [r EXCEPT !.pc = "received", !.route = Dispatch(r.method, r.pathname)]]
  /\ UNCHANGED <<ctorArg, initialState, routes>>

Request(s) ==
  /\ Free(s)
  /\ \E r \in FreshRequests :
       /\ r.method = "POST" \/ r.body = NoBody
       /\ Arrive(s, r)

\* the requests that are made while another request is being served
ConcurrentRequests ==
  {[Idle EXCEPT !.method = "GET", !.pathname = PathAX],
   [Idle EXCEPT !.method = "GET", !.pathname = PathA \o DevSuffix],
   [Idle EXCEPT !.method = "POST", !.pathname = PathA \o DevSuffix,
                !.formPostUrl = Origin \o PathA]}

ConcurrentRequest(s) ==
  /\ Free(s)
  /\ \E r \in ConcurrentRequests : Arrive(s, r)

PathnameOf(url) == SubSeq(url, Len(Origin) + 1, Len(url))

\* a client presses a button of a rendered frame: it posts to fc:frame:post_url
Click(s, t) ==
  /\ Free(s)
  /\ slots[t].pc = "done"
  /\ slots[t].response = "page"
  /\ slots[t].depth < MaxClicks
  /\ \E b \in Bodies :
       Arrive(s, [Idle EXCEPT
         !.depth = slots[t].depth + 1,
         !.method = "POST",
         !.pathname = PathnameOf(slots[t].postUrl.base),
         !.prevQ = slots[t].postUrl.previousContext,
         !.body = b,
         !.page = [context |-> slots[t].context,
                   previousContext |-> slots[t].previousContext,
                   extended |-> [slots[t].context EXCEPT
                                   !.intents = slots[t].parsedIntents,
                                   !.previousState = slots[t].derived]]])

\* a client loads the image of a rendered frame: it gets fc:frame:image
FetchImage(s, t) ==
  /\ Free(s)
  /\ slots[t].pc = "done"
  /\ slots[t].response = "page"
  /\ Arrive(s, [Idle EXCEPT
       !.depth = slots[t].depth,
       !.method = "GET",
       !.pathname = PathnameOf(slots[t].imageUrl.base),
       !.prevQ = slots[t].imageUrl.previousContext,
       !.ctxQ = slots[t].imageUrl.context,
       !.page = [context |-> slots[t].context,
                 previousContext |-> slots[t].previousContext,
                 extended |-> NoObj]])

\* ------------------------------------------------------------- no route
NotFound(s) ==
  /\ slots[s].pc = "received"
  /\ slots[s].route.kind = "notFound"
  /\ slots' = [slots EXCEPT ![s].pc = "done", ![s].response = "notFound"]
  /\ UNCHANGED <<ctorArg, initialState, routes, built>>

\* ------------------------------------------------------------- frame route
\* query.previousContext ? deserializeJson(query.previousContext) : undefined
\* [called: deserializeJson ran, ok: it returned, val: the value]
GuardedValue(param) ==
  IF ParamTruthy(param)
  THEN [called |-> TRUE, ok |-> deserializeJson(param).ok,
        val |-> deserializeJson(param).val]
  ELSE [called |-> FALSE, ok |-> TRUE, val |-> <<>>]

\* deserializeJson(query.context): the image route's context
UnguardedValue(param) ==
  [called |-> TRUE, ok |-> deserializeJson(param).ok,
   val |-> deserializeJson(param).val]

CallsOf(name, param, value) ==
  IF value.called THEN <<[name |-> name, arg |-> param]>> ELSE <<>>

\* an exception leaves the handler: Hono answers 500
Thrown(r) == [r EXCEPT !.pc = "done", !.response = "error"]

\* the derived state written back to this.#initialState
InitialStateDerived(current, derived) == derived

\* the route does not assign this.#initialState: deriveState() works on the
\* request's own copy
InitialStateAfter(current, derived) == current

\* the route up to its first await, of requestToContext(c.req)
FrameRouteStart(r) ==
  LET v == GuardedValue(r.prevQ)
  IN IF ~v.ok THEN Thrown(r)
     ELSE [r EXCEPT !.pc = "frame",
                    !.deserialized = CallsOf("previousContext", r.prevQ, v),
                    !.previousContext = v.val]

FrameRoute(s) ==
  /\ slots[s].pc = "received"
  /\ slots[s].route.kind = "frame"
  /\ slots' = [slots EXCEPT ![s] = FrameRouteStart(slots[s])]
  /\ UNCHANGED <<ctorArg, initialState, routes, built>>

\* the comparison made with c.req.url as it is
ShouldRedirectRawUrl(context, url) == context.url # url

\* context.url !== parsePath(c.req.url)
ShouldRedirect(context, url) == context.url # parsePath(url)

\* `${context.url}?previousContext=${query.previousContext}`: a parameter
\* that is undefined is written as the word undefined
RedirectLocation(context, prevQ) ==
  [base |-> context.url,
   previousContext |-> IF prevQ.kind = Absent
                       THEN [kind |-> "the word undefined", json |-> NoObj]
                       ELSE prevQ,
   context |-> NoParam]

\* intents ? parseIntents(intents) : null
ParsedIntents(intents) ==
  IF intents.def THEN parseIntents(intents.kinds) ELSE NullIntents

\* the state the request started from, not context.deriveState()
PreviousContextObjectStale(context, parsedIntents, derived) ==
  [context EXCEPT !.intents = parsedIntents]

\* { ...context, intents: parsedIntents, previousState: context.deriveState() }
PreviousContextObject(context, parsedIntents, derived) ==
  [context EXCEPT !.intents = parsedIntents, !.previousState = derived]

\* ogSearch without the incoming previousContext
ImageUrlWithoutPrevious(context, prevQ, serializedContext) ==
  [base |-> parsePath(context.url) \o ImageSuffix,
   previousContext |-> NoParam,
   context |-> IF ParamTruthy(serializedContext) THEN serializedContext ELSE NoParam]

\* ogSearch, and the fc:frame:image URL `${parsePath(context.url)}/image?${ogSearch}`
ImageUrl(context, prevQ, serializedContext) ==
  [base |-> parsePath(context.url) \o ImageSuffix,
   previousContext |-> IF ParamTruthy(prevQ) THEN prevQ ELSE NoParam,
   context |-> IF ParamTruthy(serializedContext) THEN serializedContext ELSE NoParam]

\* the action appended as the handler gave it
PostUrlBaseRawAction(action, baseUrl, context) ==
  IF action.def /\ action.str # <<>>
  THEN baseUrl \o action.str
  ELSE context.url

\* action ? baseUrl + parsePath(action || '') : context.url
PostUrlBase(action, baseUrl, context) ==
  IF action.def /\ action.str # <<>>
  THEN baseUrl \o parsePath(action.str)
  ELSE context.url

\* postSearch, and the fc:frame:post_url URL
PostUrl(action, baseUrl, context, serializedPreviousContext) ==
  [base |-> PostUrlBase(action, baseUrl, context),
   previousContext |-> IF ParamTruthy(serializedPreviousContext)
                       THEN serializedPreviousContext ELSE NoParam,
   context |-> NoParam]

\* the route from getFrameContext on, given this.#initialState: the
\* redirect, or the handler and the page
FrameRouteFinish(r, initState) ==
  LET url == ReqUrl(r)
      baseUrl == Origin \o r.pathname
      context == getFrameContext(requestToContext(url, r.body), initState,
                                 r.previousContext)
      h == handler(FramePathOf(r.route))
      parsedIntents == ParsedIntents(h.intents)
      derived == deriveState(context, h.derive)
      serializedContext == serializeJson(context)
      serializedPreviousContext ==
        serializeJson(PreviousContextObject(context, parsedIntents, derived))
      seen == [r EXCEPT !.pc = "done", !.initialStateArg = initState,
                        !.context = context]
  IN IF ShouldRedirect(context, url)
     THEN [seen EXCEPT !.response = "redirect",
                       !.location = RedirectLocation(context, r.prevQ)]
     ELSE [seen EXCEPT !.response = "page",
                       !.handlerCalls = r.handlerCalls + 1,
                       !.derived = derived,
                       !.parsedIntents = parsedIntents,
                       !.imageUrl = ImageUrl(context, r.prevQ, serializedContext),
                       !.postUrl = PostUrl(h.action, baseUrl, context,
                                           serializedPreviousContext)]

FrameRouteResume(s) ==
  /\ slots[s].pc = "frame"
  /\ slots' = [slots EXCEPT ![s] = FrameRouteFinish(slots[s], initialState)]
  /\ initialState' = InitialStateAfter(initialState, slots'[s].derived)
  /\ UNCHANGED <<ctorArg, routes, built>>

\* ------------------------------------------------------------- image route
\* the route up to its first await, of getFrameContext(...), given
\* this.#initialState
ImageRouteStart(r, initState) ==
  LET pv == GuardedValue(r.prevQ)
      cv == UnguardedValue(r.ctxQ)
      calls == CallsOf("previousContext", r.prevQ, pv) \o CallsOf("context", r.ctxQ, cv)
  IN IF ~pv.ok \/ ~cv.ok
     THEN [Thrown(r) EXCEPT !.deserialized = calls]
     ELSE [r EXCEPT !.pc = "image",
                    !.deserialized = calls,
                    !.previousContext = pv.val,
                    !.initialStateArg = initState,
                    !.context = getFrameContext(cv.val[1], initState, pv.val)]

ImageRoute(s) ==
  /\ slots[s].pc = "received"
  /\ slots[s].route.kind = "image"
  /\ slots' = [slots EXCEPT ![s] = ImageRouteStart(slots[s], initialState)]
  /\ UNCHANGED <<ctorArg, initialState, routes, built>>

\* the handler and the ImageResponse
ImageRouteFinish(r) ==
  [r EXCEPT !.pc = "done", !.response = "image",
            !.handlerCalls = r.handlerCalls + 1,
            !.derived = deriveState(r.context, handler(FramePathOf(r.route)).derive)]

ImageRouteResume(s) ==
  /\ slots[s].pc = "image"
  /\ slots' = [slots EXCEPT ![s] = ImageRouteFinish(slots[s])]
  /\ initialState' = InitialStateAfter(initialState, slots'[s].derived)
  /\ UNCHANGED <<ctorArg, routes, built>>

\* -------------------------------------------------------------- dev routes
Statuses == {200, 201, 404}
StatusText(status) ==
  IF status = 200 THEN "OK" ELSE IF status = 201 THEN "Created" ELSE "Not Found"

\* c.req.url.replace('/dev', '')
DevBaseUrl(url) == Replace(url, DevSuffix, <<>>)

\* GET: fetch(baseUrl) is awaited
DevGet(s) ==
  LET r == slots[s]
      baseUrl == DevBaseUrl(ReqUrl(r))
  IN /\ r.pc = "received"
     /\ r.route.kind = "devGet"
     /\ slots' = [slots EXCEPT ![s] =
          [r EXCEPT !.pc = "devGet", !.baseUrl = baseUrl,
                    !.fetches = <<[method |-> "GET", url |-> baseUrl]>>]]
     /\ UNCHANGED <<ctorArg, initialState, routes, built>>

\* GET: the page arrives and <Dev> is rendered from it
DevGetResume(s) ==
  LET r == slots[s]
  IN /\ r.pc = "devGet"
     /\ \E status \in Statuses :
          slots' = [slots EXCEPT ![s] =
            [r EXCEPT !.pc = "done", !.response = "dev",
                      !.statuses = <<status>>,
                      !.rendered = [fetch |-> 1, status |-> status]]]
     /\ UNCHANGED <<ctorArg, initialState, routes, built>>

\* POST: the frame action is signed for baseUrl and posted to postUrl
DevPost(s) ==
  LET r == slots[s]
      baseUrl == DevBaseUrl(ReqUrl(r))
  IN /\ r.pc = "received"
     /\ r.route.kind = "devPost"
     /\ slots' = [slots EXCEPT ![s] =
          [r EXCEPT !.pc = "devPost", !.baseUrl = baseUrl,
                    !.messageUrl = baseUrl,
                    !.fetches = <<[method |-> "POST", url |-> r.formPostUrl]>>]]
     /\ UNCHANGED <<ctorArg, initialState, routes, built>>

\* response.status !== 200 ? response.statusText : undefined
DevError(status) == IF status # 200 THEN StatusText(status) ELSE Undefined

\* the fallback taken on !response.ok instead
NeedsFallbackNotOk(status) == status >= 400

\* if (response.status !== 200) response = await fetch(baseUrl)
NeedsFallback(status) == status # 200

\* POST: the callback's response arrives
DevPostResume(s) ==
  LET r == slots[s]
  IN /\ r.pc = "devPost"
     /\ \E status \in Statuses :
          slots' = [slots EXCEPT ![s] =
            IF NeedsFallback(status)
            THEN [r EXCEPT !.pc = "devFallback",
                           !.statuses = <<status>>,
                           !.error = DevError(status),
                           !.fetches = r.fetches \o <<[method |-> "GET", url |-> r.baseUrl]>>]
            ELSE [r EXCEPT !.pc = "done", !.response = "preview",
                           !.statuses = <<status>>,
                           !.error = DevError(status),
                           !.rendered = [fetch |-> 1, status |-> status]]]
     /\ UNCHANGED <<ctorArg, initialState, routes, built>>

\* POST: the fallback page arrives and <Preview> is rendered from it
DevFallbackResume(s) ==
  LET r == slots[s]
  IN /\ r.pc = "devFallback"
     /\ \E status \in Statuses :
          slots' = [slots EXCEPT ![s] =
            [r EXCEPT !.pc = "done", !.response = "preview",
                      !.statuses = r.statuses \o <<status>>,
                      !.rendered = [fetch |-> 2, status |-> status]]]
     /\ UNCHANGED <<ctorArg, initialState, routes, built>>

\* ----------------------------------------------------------- specification
\* one request at a time
Next ==
  \/ Frame
  \/ Request(1)
  \/ Click(1, 1)
  \/ FetchImage(1, 1)
  \/ NotFound(1)
  \/ FrameRoute(1)
  \/ FrameRouteResume(1)
  \/ ImageRoute(1)
  \/ ImageRouteResume(1)
  \/ DevGet(1)
  \/ DevGetResume(1)
  \/ DevPost(1)
  \/ DevPostResume(1)
  \/ DevFallbackResume(1)

Spec == Init /\ [][Next]_vars

\* up to MaxInflight requests, their steps interleaved at every await
\* the application has made its calls of frame() and serves
InitConcurrent ==
  /\ ctorArg = "S1"
  /\ initialState = Constructor(ctorArg)
  /\ routes = FrameRoutes(DeclaredPaths[1]) \o FrameRoutes(DeclaredPaths[2])
              \o FrameRoutes(DeclaredPaths[3])
  /\ built = TRUE
  /\ slots = [s \in Slots |-> Idle]

NextConcurrent ==
  \E s \in Slots :
    \/ ConcurrentRequest(s)
    \/ \E t \in Slots : slots[t].depth = 0 /\ Click(s, t)
    \/ \E t \in Slots : FetchImage(s, t)
    \/ FrameRoute(s)
    \/ FrameRouteResume(s)
    \/ ImageRoute(s)
    \/ ImageRouteResume(s)
    \/ DevGet(s)
    \/ DevGetResume(s)
    \/ DevPost(s)
    \/ DevPostResume(s)
    \/ DevFallbackResume(s)

SpecConcurrent == InitConcurrent /\ [][NextConcurrent]_vars

\* ------------------------------------------------------------------ claims
Registered == {parsePath(DeclaredPaths[i]) : i \in 1..NumFrames}
Served(r) == r.pc # "idle"

\* C1: once frame(path, handler) was called, GET and POST on <path> are
\* answered by the frame route of that path, GET on <path>/image by its
\* image route, GET and POST on <path>/dev by its developer preview, and no
\* other method on <path>/image is answered by any route. (The declared
\* paths of the model are none of them another one's /image or /dev.)
RoutesAnswer ==
  \A s \in Slots : \A p \in Registered :
    LET r == slots[s]
    IN Served(r) =>
         /\ (r.pathname = p /\ r.method \in {"GET", "POST"})
              => r.route.kind = "frame" /\ FramePathOf(r.route) = p
         /\ (r.pathname = p \o ImageSuffix /\ r.method = "GET")
              => r.route.kind = "image" /\ FramePathOf(r.route) = p
         /\ (r.pathname = p \o ImageSuffix /\ r.method # "GET")
              => r.route.kind = "notFound"
         /\ (r.pathname = p \o DevSuffix /\ r.method = "GET")
              => r.route.kind = "devGet" /\ FramePathOf(r.route) = p
         /\ (r.pathname = p \o DevSuffix /\ r.method = "POST")
              => r.route.kind = "devPost" /\ FramePathOf(r.route) = p
         /\ (r.pc = "done" /\ r.route.kind = "frame")
              => r.response \in {"page", "redirect"}
         /\ (r.pc = "done" /\ r.route.kind = "notFound")
              => r.response = "notFound"
         /\ (r.pc = "done" /\ r.route.kind = "devGet") => r.response = "dev"
         /\ (r.pc = "done" /\ r.route.kind = "devPost") => r.response = "preview"

\* a POST on a registered <path>/image was answered: by no route
RoutesAnswerWitness ==
  \E s \in Slots :
    /\ NumFrames = MaxFrames
    /\ slots[s].pc = "done"
    /\ slots[s].method = "POST"
    /\ slots[s].pathname = PathA \o ImageSuffix
    /\ slots[s].response = "notFound"

\* C2: in a POST to <path>/dev the message is posted to postUrl once; a
\* second fetch is made if and only if that response's status is not 200,
\* it is a GET of baseUrl, and there is never a third; the preview is
\* rendered from the last response, and the error is the callback's status
\* text when its status was not 200 and undefined when it was 200.
DevPostFetches ==
  \A s \in Slots :
    LET r == slots[s]
        post == [method |-> "POST", url |-> r.formPostUrl]
        again == [method |-> "GET", url |-> DevBaseUrl(ReqUrl(r))]
    IN r.route.kind = "devPost" =>
         /\ r.pc = "devPost" => r.fetches = <<post>>
         /\ r.pc = "devFallback"
              => r.fetches = <<post, again>> /\ r.statuses[1] # 200
         /\ r.pc = "done" =>
              /\ Len(r.statuses) = Len(r.fetches)
              /\ r.fetches = IF r.statuses[1] = 200 THEN <<post>> ELSE <<post, again>>
              /\ r.rendered = [fetch |-> Len(r.fetches),
                               status |-> r.statuses[Len(r.statuses)]]
              /\ r.error = IF r.statuses[1] = 200 THEN Undefined
                           ELSE StatusText(r.statuses[1])

\* the callback answered 201 and the fallback 404: two fetches, no third
DevPostFetchesWitness ==
  \E s \in Slots :
    /\ slots[s].pc = "done"
    /\ slots[s].route.kind = "devPost"
    /\ slots[s].statuses = <<201, 404>>
    /\ Len(slots[s].fetches) = 2
    /\ slots[s].error = "Created"

\* C3: in the frame route and in the image route, a context-carrying query
\* parameter that is absent gives undefined without a call of
\* deserializeJson, and one that holds a string gives the deserialization
\* of that string.
CalledFor(r, name) == \E i \in 1..Len(r.deserialized) : r.deserialized[i].name = name

AbsentParameterIsUndefined ==
  \A s \in Slots :
    LET r == slots[s]
    IN /\ (r.route.kind \in {"frame", "image"} /\ r.pc \in {"frame", "image", "done"})
            => /\ r.prevQ.kind = Absent
                    => ~CalledFor(r, "previousContext") /\ r.previousContext = <<>>
               /\ r.prevQ.kind = "ser"
                    => /\ r.deserialized[1] = [name |-> "previousContext", arg |-> r.prevQ]
                       /\ r.previousContext = deserializeJson(r.prevQ).val
       /\ (r.route.kind = "image" /\ r.pc \in {"image", "done"})
            => /\ r.ctxQ.kind = Absent => ~CalledFor(r, "context")
               /\ r.ctxQ.kind = "ser"
                    => r.deserialized[Len(r.deserialized)]
                         = [name |-> "context", arg |-> r.ctxQ]

\* two objects whose members read the same: a member that is missing and
\* one that is undefined read the same
SameMember(a, b, m) ==
  IF m \in ScalarMembers THEN Get(a[m]) = Get(b[m]) ELSE a[m] = b[m]
ReadsEqual(a, b) == \A m \in DOMAIN a : SameMember(a, b, m)
ReadsEqualData(a, b) == \A m \in DOMAIN a \ {"deriveState"} : SameMember(a, b, m)

RenderedPage(r) == r.pc = "done" /\ r.response = "page"
Extended(r) ==
  [r.context EXCEPT !.intents = r.parsedIntents, !.previousState = r.derived]
Clicked(r) ==
  r.page.extended # NoObj /\ r.route.kind = "frame" /\ r.pc \in {"frame", "done"}

\* C4 as claimed: the previousContext of fc:frame:post_url deserializes to
\* the request's context extended with the parsed intents and the derived
\* state, and the next request's handler gets that object.
PostUrlCarriesContext ==
  \A s \in Slots :
    LET r == slots[s]
    IN /\ RenderedPage(r)
            => /\ deserializeJson(r.postUrl.previousContext).ok
               /\ ReadsEqual(deserializeJson(r.postUrl.previousContext).val[1],
                             Extended(r))
       /\ Clicked(r)
            => /\ r.previousContext # <<>>
               /\ ReadsEqual(r.previousContext[1], r.page.extended)

\* C4 as amended: the same, of every member but the function deriveState,
\* which the serialized context does not carry: it reads undefined.
PostUrlCarriesContextData ==
  \A s \in Slots :
    LET r == slots[s]
    IN /\ RenderedPage(r)
            => /\ deserializeJson(r.postUrl.previousContext).ok
               /\ ReadsEqualData(deserializeJson(r.postUrl.previousContext).val[1],
                                 Extended(r))
               /\ Get(deserializeJson(r.postUrl.previousContext).val[1].deriveState)
                    = Undefined
               /\ r.parsedIntents.tag \in {"null", "list"}
               /\ ~handler(FramePathOf(r.route)).intents.def
                    => r.parsedIntents = NullIntents
       /\ Clicked(r)
            => /\ r.previousContext # <<>>
               /\ ReadsEqualData(r.previousContext[1], r.page.extended)
               /\ Get(r.previousContext[1].deriveState) = Undefined

\* a second click was served: its handler got the first click's context,
\* with no intents and a derived state that is not the state it started from
PostUrlCarriesContextWitness ==
  \E s \in Slots :
    /\ RenderedPage(slots[s])
    /\ slots[s].depth = 2
    /\ slots[s].previousContext # <<>>
    /\ slots[s].previousContext[1].intents = NullIntents
    /\ slots[s].page.extended.previousState # slots[s].page.context.previousState
    /\ slots[s].derived # slots[s].context.previousState

\* C5: the fc:frame:image URL of a rendered page carries the serialization
\* of the page's context and the incoming previousContext string (none when
\* the request had none), and a GET of it calls the handler once with a
\* context and a previousContext equal to the page's.
ImageFetched(r) ==
  r.page.context # NoObj /\ r.page.extended = NoObj /\ r.pc # "received"

ImageUrlCarriesContext ==
  \A s \in Slots :
    LET r == slots[s]
    IN /\ RenderedPage(r)
            => /\ r.imageUrl.base = parsePath(r.context.url) \o ImageSuffix
               /\ r.imageUrl.context = serializeJson(r.context)
               /\ r.imageUrl.previousContext
                    = IF r.previousContext = <<>> THEN NoParam ELSE r.prevQ
       /\ ImageFetched(r)
            => /\ r.route.kind = "image"
               /\ r.pc \in {"image", "done"}
               /\ r.context = r.page.context
               /\ r.previousContext = r.page.previousContext
               /\ r.pc = "done" => r.response = "image" /\ r.handlerCalls = 1

\* the image of a page that a click made was served
ImageUrlCarriesContextWitness ==
  \E s \in Slots :
    /\ slots[s].pc = "done"
    /\ slots[s].response = "image"
    /\ slots[s].page.previousContext # <<>>
    /\ slots[s].context.buttonIndex = "1"
    /\ slots[s].handlerCalls = 1

\* C6: no route assigns this.#initialState, and under any interleaving a
\* frame or image request gets the response it gets when served alone.
AsReceived(r) ==
  [Idle EXCEPT !.pc = "received", !.depth = r.depth, !.method = r.method,
               !.pathname = r.pathname, !.prevQ = r.prevQ, !.ctxQ = r.ctxQ,
               !.body = r.body, !.formPostUrl = r.formPostUrl, !.page = r.page,
               !.route = r.route]

ServedAlone(r) ==
  IF r.route.kind = "frame"
  THEN LET started == FrameRouteStart(AsReceived(r))
       IN IF started.pc = "done" THEN started
          ELSE FrameRouteFinish(started, Constructor(ctorArg))
  ELSE LET started == ImageRouteStart(AsReceived(r), Constructor(ctorArg))
       IN IF started.pc = "done" THEN started ELSE ImageRouteFinish(started)

RequestsAreIndependent ==
  /\ initialState = Constructor(ctorArg)
  /\ \A s \in Slots :
       (slots[s].pc = "done" /\ slots[s].route.kind \in {"frame", "image"})
         => slots[s] = ServedAlone(slots[s])

\* a request waits at its await while another has derived a new state
RequestsAreIndependentWitness ==
  \E s, t \in Slots :
    /\ slots[s].pc = "frame"
    /\ RenderedPage(slots[t])
    /\ slots[t].derived # initialState
    /\ slots[t].derived # Undefined

\* C7: the frame route calls the handler once when the derived context.url
\* is parsePath of the request URL, and not at all otherwise: then it
\* redirects to context.url with the incoming previousContext and renders
\* no meta tag.
HandlerOnceOrRedirect ==
  \A s \in Slots :
    LET r == slots[s]
    IN r.route.kind = "frame" =>
         /\ r.pc \in {"received", "frame"} => r.handlerCalls = 0
         /\ (r.pc = "done" /\ r.context.url = parsePath(ReqUrl(r)))
              => r.handlerCalls = 1 /\ r.response = "page" /\ r.location = NoUrl
         /\ (r.pc = "done" /\ r.context.url # parsePath(ReqUrl(r)))
              => /\ r.handlerCalls = 0
                 /\ r.response = "redirect"
                 /\ r.location.base = r.context.url
                 /\ r.location.previousContext = r.prevQ
                 /\ r.imageUrl = NoUrl
                 /\ r.postUrl = NoUrl
                 /\ r.parsedIntents = NoIntents

\* a reset button was pressed on a frame that posts to another path
HandlerOnceOrRedirectWitness ==
  \E s \in Slots :
    /\ slots[s].pc = "done"
    /\ slots[s].response = "redirect"
    /\ slots[s].handlerCalls = 0
    /\ slots[s].pathname = PathAX
    /\ slots[s].location.base = Origin \o PathA

\* C8: the URL of fc:frame:post_url is the request's origin and pathname
\* followed by parsePath(action) when the handler's action is not empty,
\* and context.url when there is none or an empty one, followed by the
\* query string with the new previousContext.
PostUrlOfAction ==
  \A s \in Slots :
    LET r == slots[s]
        action == handler(FramePathOf(r.route)).action
    IN RenderedPage(r) =>
         /\ (action.def /\ action.str # <<>>)
              => r.postUrl.base = Origin \o r.pathname \o parsePath(action.str)
         /\ (~action.def \/ action.str = <<>>)
              => r.postUrl.base = r.context.url
         /\ r.postUrl.previousContext = serializeJson(Extended(r))
         /\ r.postUrl.context = NoParam

\* the frame at /a, whose action is "/x/", was rendered
PostUrlOfActionWitness ==
  \E s \in Slots :
    /\ RenderedPage(slots[s])
    /\ slots[s].pathname = PathA
    /\ slots[s].postUrl.base = Origin \o PathAX

\* C9: the developer preview at P/dev works on the frame page at P: the URL
\* it fetches on GET, the one it fetches again on POST and the url of the
\* signed message are the request URL without its trailing /dev.
WithoutTrailingDev(url) == SubSeq(url, 1, Len(url) - Len(DevSuffix))

DevWorksOnFramePage ==
  \A s \in Slots :
    LET r == slots[s]
        page == WithoutTrailingDev(ReqUrl(r))
    IN /\ (r.route.kind \in {"devGet", "devPost"} /\ r.pc # "received")
            => r.baseUrl = page
       /\ (r.route.kind = "devGet" /\ r.pc # "received")
            => r.fetches = <<[method |-> "GET", url |-> page]>>
       /\ (r.route.kind = "devPost" /\ r.pc # "received")
            => /\ r.messageUrl = page
               /\ Len(r.fetches) = 2 => r.fetches[2] = [method |-> "GET", url |-> page]

\* C10: getFrameContext is given the constructor's initialState when it is
\* truthy and undefined when it is not, the same for every request.
InitialStateHanded ==
  \A s \in Slots :
    slots[s].initialStateArg # "unread"
      => slots[s].initialStateArg = IF Truthy(ctorArg) THEN ctorArg ELSE Undefined

\* the constructor was given 0 and a page was rendered from undefined
InitialStateHandedWitness ==
  \E s \in Slots :
    /\ ctorArg = "0"
    /\ RenderedPage(slots[s])
    /\ slots[s].initialStateArg = Undefined
    /\ slots[s].context.previousState = Undefined

====
